---- MODULE Spec2Model ----
(***************************************************************************)
(* A model of createnv's template engine: the line-driven block parser     *)
(* (src/src/parser.rs), the variable classifier, and the variable model    *)
(* with its resolver (src/src/model.rs).                                   *)
(*                                                                         *)
(* Strings are TLA+ strings; offsets are Rust's, counted from 0.  An       *)
(* Option<T> is a sequence of length at most one: None is <<>> and Some(x) *)
(* is <<x>>.                                                               *)
(***************************************************************************)
EXTENDS Integers, Sequences, FiniteSets, TLC

VARIABLES
    state,        \* Parser.state
    buffer,       \* Parser.buffer : Option<Block>
    blocks,       \* Parser.blocks : Vec<Block>
    lines,        \* the lines reader.lines() has yielded so far, in order
    atEof,        \* reader.lines() has ended: the loop of Parser::parse is over
    pc,           \* where Parser::parse is: "open", "lines", "flush_blank", "flush_eof", "done"
    result,       \* what Parser::parse returned, or how it ended; "running" before that
    error,        \* the error value parse returned, when it returned one
    random_chars, \* Parser.random_chars
    askIdx,       \* the variable Block::resolve's first loop is at (1-based), 0 outside it
    askDepth,     \* nesting depth of the running SimpleVariable::ask_for_input (0: outermost call)
    prompts,      \* the prompts printed so far, in order
    termReads,    \* what terminal.read_line has returned so far, in order (Eof: no bytes read)
    probe,        \* a pure function under test: its inputs and its output
    reader,       \* the CharReader: its fields line, column, current_line, done
    source,       \* the file behind CharReader.reader: its text, and how much of it was read
    yielded,      \* what CharReader::next has returned so far, in order
    lookahead,    \* Tokenizer.buffer : Option<Token>
    scan,         \* the local buffer of a running Tokenizer::next_tokens, None when none runs
    scanFirst,    \* the reader column of the first character pushed to that buffer, 0 before it
    tokens        \* what Iterator::next of the Tokenizer has returned so far, in order

\* the variables of reader.rs
ReaderVars == <<reader, source, yielded>>

\* the variables of tokenizer.rs
TokenizerVars == <<lookahead, scan, scanFirst, tokens>>

vars == <<state, buffer, blocks, lines, atEof, pc, result, error, random_chars, askIdx, askDepth,
          prompts, termReads, probe, ReaderVars, TokenizerVars>>

None == <<>>
Some(x) == <<x>>
IsSome(o) == o # <<>>
Unwrap(o) == o[1]

NotFound == 0 - 1

----------------------------------------------------------------------------
(* str primitives of the Rust standard library, as the parser uses them.   *)

CharAt(s, i) == SubSeq(s, i + 1, i + 1)

\* &s[a..b]
Slice(s, a, b) == SubSeq(s, a + 1, b)

\* &s[a..]
SliceFrom(s, a) == SubSeq(s, a + 1, Len(s))

StartsWith(s, p) == Len(p) <= Len(s) /\ SubSeq(s, 1, Len(p)) = p

EndsWith(s, p) == Len(p) <= Len(s) /\ SubSeq(s, Len(s) - Len(p) + 1, Len(s)) = p

\* str::find: the offset of the first occurrence of pat in s, or NotFound
Find(s, pat) ==
    LET hits == {i \in 0..(Len(s) - Len(pat)) : Slice(s, i, i + Len(pat)) = pat}
    IN  IF hits = {} THEN NotFound ELSE CHOOSE i \in hits : \A j \in hits : i <= j

\* str::contains for a one-character needle
Contains(s, c) == Find(s, c) # NotFound

\* str::split_once
SplitOnce(s, pat) ==
    LET i == Find(s, pat)
    IN  IF i = NotFound THEN None
        ELSE Some(<<Slice(s, 0, i), SliceFrom(s, i + Len(pat))>>)

\* str::strip_prefix, str::strip_suffix
StripPrefix(s, p) == IF StartsWith(s, p) THEN Some(SliceFrom(s, Len(p))) ELSE None

StripSuffix(s, p) == IF EndsWith(s, p) THEN Some(Slice(s, 0, Len(s) - Len(p))) ELSE None

WhiteSpace == {" ", "\t", "\n", "\r"}

RECURSIVE TrimStart(_)
TrimStart(s) ==
    IF s # "" /\ CharAt(s, 0) \in WhiteSpace THEN TrimStart(SliceFrom(s, 1)) ELSE s

RECURSIVE TrimEnd(_)
TrimEnd(s) ==
    IF s # "" /\ CharAt(s, Len(s) - 1) \in WhiteSpace
    THEN TrimEnd(Slice(s, 0, Len(s) - 1)) ELSE s

\* str::trim
Trim(s) == TrimEnd(TrimStart(s))

\* str::replace: the non-overlapping occurrences of from, left to right; the
\* text put in their place is not searched again
RECURSIVE Replace(_, _, _)
Replace(s, from, to) ==
    LET i == Find(s, from)
    IN  IF i = NotFound THEN s
        ELSE Slice(s, 0, i) \o to \o Replace(SliceFrom(s, i + Len(from)), from, to)

Digits == "0123456789"

\* str::parse::<usize>: decimal digits after an optional leading plus sign,
\* an error when the number does not fit usize
RECURSIVE DigitsValue(_, _)
DigitsValue(s, acc) ==
    IF s = "" THEN acc
    ELSE DigitsValue(SliceFrom(s, 1), 10 * acc + Find(Digits, CharAt(s, 0)))

\* usize::MAX of a 64-bit target, in decimal
USIZE_MAX == "18446744073709551615"

RECURSIVE TrimLeadingZeros(_)
TrimLeadingZeros(s) ==
    IF Len(s) > 1 /\ StartsWith(s, "0") THEN TrimLeadingZeros(SliceFrom(s, 1)) ELSE s

\* a < b for strings of digits of one length
RECURSIVE DigitsBelow(_, _)
DigitsBelow(a, b) ==
    IF a = "" THEN FALSE
    ELSE LET x == Find(Digits, CharAt(a, 0))
             y == Find(Digits, CharAt(b, 0))
         IN  x < y \/ (x = y /\ DigitsBelow(SliceFrom(a, 1), SliceFrom(b, 1)))

\* the number overflows usize: parse answers PosOverflow
OverflowsUsize(digits) ==
    LET d == TrimLeadingZeros(digits)
    IN  Len(d) > Len(USIZE_MAX) \/ (Len(d) = Len(USIZE_MAX) /\ DigitsBelow(USIZE_MAX, d))

ParseUsize(s) ==
    LET body == IF StartsWith(s, "+") THEN SliceFrom(s, 1) ELSE s
    IN  IF body # "" /\ \A i \in 0..(Len(body) - 1) : Contains(Digits, CharAt(body, i))
        THEN IF OverflowsUsize(body) THEN None ELSE Some(DigitsValue(body, 0))
        ELSE None

----------------------------------------------------------------------------
(* parser.rs: constants and the classifier's predicates.                   *)

FIRST_CHAR == "ABCDEFGHIJKLMNOPQRSTUVWXYZ"
NAME_CHARS == "ABCDEFGHIJKLMNOPQRSTUVWXYZ0123456789_"
RANDOM_VARIABLE_PREFIX == "<random"

\* is_valid_name without the test of the first character
is_valid_name_AnyFirst(name) ==
    /\ name # ""
    /\ \A i \in 0..(Len(name) - 1) : Contains(NAME_CHARS, CharAt(name, i))

is_valid_name(name) ==
    /\ name # ""
    /\ Contains(FIRST_CHAR, CharAt(name, 0))
    /\ \A i \in 0..(Len(name) - 1) : Contains(NAME_CHARS, CharAt(name, i))

\* What is_auto_generated_variable does with value: ret is what it returns;
\* panics says the slice &value[first + 1..first + second] starts after its
\* end, which aborts the process.
is_auto_generated_variable(value) ==
    LET first == Find(value, "{")
    IN  IF first = NotFound THEN [panics |-> FALSE, ret |-> FALSE]
        ELSE LET second == Find(SliceFrom(value, first + 1), "}")
             IN  IF second = NotFound THEN [panics |-> FALSE, ret |-> FALSE]
                 ELSE IF first + 1 > first + second
                      THEN [panics |-> TRUE, ret |-> FALSE]
                      ELSE [panics |-> FALSE,
                            ret |-> is_valid_name(Slice(value, first + 1, first + second))]

\* (is_random, size)
is_random_variable(value) ==
    LET rest == StripPrefix(value, RANDOM_VARIABLE_PREFIX)
        number == IF IsSome(rest) THEN StripSuffix(Unwrap(rest), ">") ELSE None
    IN  IF ~IsSome(number) THEN <<FALSE, None>>
        ELSE IF Unwrap(number) = "" THEN <<TRUE, None>>
        ELSE IF ~StartsWith(Unwrap(number), ":") THEN <<FALSE, None>>
        ELSE LET n == ParseUsize(SliceFrom(Unwrap(number), 1))
             IN  IF IsSome(n) THEN <<TRUE, n>> ELSE <<FALSE, None>>

----------------------------------------------------------------------------
(* model.rs: Comment, the variable kinds, Block.                           *)

\* Display for Comment
CommentToString(contents) == "# " \o contents

\* SimpleVariable::new
SimpleVariable(name, default, help) ==
    [kind |-> "Input", name |-> name, default |-> default, help |-> help, input |-> None]

EmptyContext == [k \in {} |-> ""]

\* AutoGeneratedVariable::new
AutoGeneratedVariable(name, pattern) ==
    [kind |-> "AutoGenerated", name |-> name, pattern |-> pattern, context |-> EmptyContext]

\* HashMap::insert
Insert(map, k, v) == [x \in (DOMAIN map) \cup {k} |-> IF x = k THEN v ELSE map[x]]

\* AutoGeneratedVariable::load_context: every entry of ctx is inserted
load_context(var, ctx) ==
    [var EXCEPT !.context =
        [x \in (DOMAIN var.context) \cup (DOMAIN ctx) |->
            IF x \in DOMAIN ctx THEN ctx[x] ELSE var.context[x]]]

\* SimpleVariable::value: Some(value), or None where the code returns
\* Err("Variable {} has no value")
SimpleValue(var) ==
    IF IsSome(var.input) THEN var.input
    ELSE IF IsSome(var.default) THEN var.default
    ELSE None

\* AutoGeneratedVariable::value with the context's entries visited in the
\* order keys: one str::replace per entry
RECURSIVE ApplyContext(_, _, _)
ApplyContext(value, context, keys) ==
    IF keys = <<>> THEN value
    ELSE ApplyContext(Replace(value, "{" \o Head(keys) \o "}", context[Head(keys)]),
                      context, Tail(keys))

\* the orders a HashMap with these keys may be iterated in
IterationOrders(keys) ==
    {order \in [1..Cardinality(keys) -> keys] :
        \A i, j \in 1..Cardinality(keys) : i # j => order[i] # order[j]}

\* AutoGeneratedVariable::value: what it may return (it always returns Ok)
AutoGeneratedValues(var) ==
    {ApplyContext(var.pattern, var.context, order) : order \in IterationOrders(DOMAIN var.context)}

DEFAULT_RANDOM_CHARS ==
    "abcdefghijklmnopqrstuvwxyzABCDEFGHIJKLMNOPQRSTUVWXYZ0123456789!@#$%^&*(-_=+)"

\* every string of n characters drawn from chars: what n rounds of
\* gen_range(0..max_chars_idx) and push may build (built by halves, which
\* keeps the evaluation shallow for the longest strings)
RECURSIVE RandomStrings(_, _)
RandomStrings(chars, n) ==
    IF n <= 0 THEN {""}
    ELSE IF n = 1 THEN {CharAt(chars, i) : i \in 0..(Len(chars) - 1)}
    ELSE LET half == n \div 2
         IN  {s \o t : s \in RandomStrings(chars, half), t \in RandomStrings(chars, n - half)}

RandomMin == 64
RandomMax == 128

\* VariableWithRandomValue::new: the variables it may return
VariableWithRandomValue(name, length) ==
    LET lengths == IF IsSome(length) THEN {Unwrap(length)} ELSE RandomMin..RandomMax
    IN  {[kind |-> "Random", name |-> name, value |-> s] :
            s \in UNION {RandomStrings(DEFAULT_RANDOM_CHARS, n) : n \in lengths}}

\* The prompt SimpleVariable::ask_for_input prints
PromptText(var) ==
    LET label == IF IsSome(var.help) THEN Unwrap(var.help) ELSE var.name
    IN  IF IsSome(var.default)
        THEN label \o " [" \o Unwrap(var.default) \o "]: "
        ELSE label \o ": "

\* Block::new
Block(title, description) ==
    [title |-> title, description |-> description, variables |-> <<>>]

\* Block::has_auto_generated_variables
has_auto_generated_variables(block) ==
    \E i \in 1..Len(block.variables) : block.variables[i].kind = "AutoGenerated"

\* value() of an input or a random variable: None where it returns Err
\* (VariableWithRandomValue::value returns the string drawn at construction)
VariableValue(var) ==
    IF var.kind = "Random" THEN Some(var.value) ELSE SimpleValue(var)

\* BuildContext with the auto-generated variables contributing their pattern
RECURSIVE BuildContext_AutoContributes(_, _, _)
BuildContext_AutoContributes(variables, i, context) ==
    IF i > Len(variables) THEN Some(context)
    ELSE IF variables[i].kind = "AutoGenerated"
         THEN BuildContext_AutoContributes(variables, i + 1,
                  Insert(context, variables[i].name, variables[i].pattern))
         ELSE IF IsSome(VariableValue(variables[i]))
              THEN BuildContext_AutoContributes(variables, i + 1,
                       Insert(context, variables[i].name, Unwrap(VariableValue(variables[i]))))
              ELSE None

\* Block::resolve, second loop: the context, entry by entry in declaration
\* order.  None where a value() call fails.
RECURSIVE BuildContext(_, _, _)
BuildContext(variables, i, context) ==
    IF i > Len(variables) THEN Some(context)
    ELSE IF variables[i].kind = "AutoGenerated"
         THEN BuildContext(variables, i + 1, context)
         ELSE IF IsSome(VariableValue(variables[i]))
              THEN BuildContext(variables, i + 1,
                       Insert(context, variables[i].name, Unwrap(VariableValue(variables[i]))))
              ELSE None

\* Block::resolve, third loop
LoadContexts(variables, context) ==
    [i \in 1..Len(variables) |->
        IF variables[i].kind = "AutoGenerated"
        THEN load_context(variables[i], context)
        ELSE variables[i]]

\* Block::resolve after its first loop: Some(block) resolved, or None on Err
ResolveContext(block) ==
    IF ~has_auto_generated_variables(block) THEN Some(block)
    ELSE LET context == BuildContext(block.variables, 1, EmptyContext)
         IN  IF IsSome(context)
             THEN Some([block EXCEPT !.variables = LoadContexts(block.variables, Unwrap(context))])
             ELSE None

\* Vec<String>::join
RECURSIVE Join(_, _)
Join(strings, sep) ==
    IF strings = <<>> THEN ""
    ELSE IF Len(strings) = 1 THEN strings[1]
    ELSE strings[1] \o sep \o Join(Tail(strings), sep)

\* Variable::as_text of each variant: the texts it may return, None for Err
VariableAsText(var) ==
    IF var.kind = "AutoGenerated"
    THEN {Some(var.name \o "=" \o v) : v \in AutoGeneratedValues(var)}
    ELSE IF IsSome(VariableValue(var))
         THEN {Some(var.name \o "=" \o Unwrap(VariableValue(var)))}
         ELSE {None}

\* the loop of Block::as_text from variable i on: the line sequences it may
\* reach, None where an as_text()? returns Err
RECURSIVE AsTextLines(_, _, _)
AsTextLines(variables, i, lns) ==
    IF i > Len(variables) THEN {Some(lns)}
    ELSE UNION {IF IsSome(text)
                THEN AsTextLines(variables, i + 1, Append(lns, Unwrap(text)))
                ELSE {None}
                : text \in VariableAsText(variables[i])}

\* as_text with the description line left out
as_text_NoDescription(block) ==
    {IF IsSome(lns) THEN [kind |-> "ok", text |-> Join(Unwrap(lns), "\n")] ELSE [kind |-> "err"]
        : lns \in AsTextLines(block.variables, 1, <<CommentToString(block.title)>>)}

\* Block::as_text: what it may return
as_text(block) ==
    LET head == <<CommentToString(block.title)>>
                \o (IF IsSome(block.description)
                    THEN <<CommentToString(Unwrap(block.description))>> ELSE <<>>)
    IN  {IF IsSome(lns) THEN [kind |-> "ok", text |-> Join(Unwrap(lns), "\n")]
         ELSE [kind |-> "err"]
            : lns \in AsTextLines(block.variables, 1, head)}

\* NextAsk with every input variable asked, answered before or not
RECURSIVE NextAsk_AsksAll(_, _)
NextAsk_AsksAll(variables, from) ==
    IF from > Len(variables) THEN 0
    ELSE IF variables[from].kind = "Input" THEN from
    ELSE NextAsk_AsksAll(variables, from + 1)

\* Block::resolve, first loop: the next variable at or after index from that
\* ask_for_input is called on, 0 when the loop is over
RECURSIVE NextAsk(_, _)
NextAsk(variables, from) ==
    IF from > Len(variables) THEN 0
    ELSE IF variables[from].kind = "Input" /\ ~IsSome(variables[from].input) THEN from
    ELSE NextAsk(variables, from + 1)

----------------------------------------------------------------------------
(* parser.rs: the variable classifier.                                     *)

\* parse_random_variable with the loop running over 0..=length
parse_random_variable_OneMore(name, description, value, chars) ==
    LET r == is_random_variable(value)
        lengths == IF IsSome(r[2]) THEN {Unwrap(r[2])} ELSE RandomMin..RandomMax
    IN  [matched |-> r[1],
         outcomes |->
            IF ~r[1] THEN {}
            ELSE UNION {
                IF Len(chars) = 0 THEN {[kind |-> "panic"]}
                ELSE {[kind |-> "ok", var |-> SimpleVariable(name, Some(s), description)] :
                         s \in RandomStrings(chars, n + 1)}
                : n \in lengths}]

\* Parser::parse_random_variable: matched says the value is a random-value
\* request; outcomes are then the variables it may return, or "panic" where
\* gen_range is given the empty range 0..0
parse_random_variable(name, description, value, chars) ==
    LET r == is_random_variable(value)
        lengths == IF IsSome(r[2]) THEN {Unwrap(r[2])} ELSE RandomMin..RandomMax
    IN  [matched |-> r[1],
         outcomes |->
            IF ~r[1] THEN {}
            ELSE UNION {
                IF n > 0 /\ Len(chars) = 0 THEN {[kind |-> "panic"]}
                ELSE {[kind |-> "ok", var |-> SimpleVariable(name, Some(s), description)] :
                         s \in RandomStrings(chars, n)}
                : n \in lengths}]

\* Parser::parse_auto_generated_variable
parse_auto_generated_variable(name, value) ==
    LET a == is_auto_generated_variable(value)
    IN  IF a.panics THEN [kind |-> "panic"]
        ELSE IF a.ret THEN [kind |-> "ok", var |-> AutoGeneratedVariable(name, value)]
        ELSE [kind |-> "none"]

\* Parser::parse_variable: the set of its possible outcomes on a line:
\* [kind |-> "ok", var], [kind |-> "err", error] or [kind |-> "panic"]
parse_variable(pos, line, chars) ==
    LET split == SplitOnce(line, "=")
    IN  IF ~IsSome(split)
        THEN {[kind |-> "err",
               error |-> [kind |-> "InvalidVariableLine", line |-> pos, text |-> line]]}
        ELSE
        LET name == Unwrap(split)[1]
            rest == Unwrap(split)[2]
            help == SplitOnce(rest, "  # ")
            val == IF IsSome(help) THEN Unwrap(help)[1] ELSE rest
            description == IF IsSome(help) THEN Some(Unwrap(help)[2]) ELSE None
        IN  IF ~is_valid_name(name)
            THEN {[kind |-> "err",
                   error |-> [kind |-> "InvalidVariableName", line |-> pos, text |-> name]]}
            ELSE IF val = ""
            THEN {[kind |-> "ok", var |-> SimpleVariable(name, None, description)]}
            ELSE
            LET random == parse_random_variable(name, description, val, chars)
                auto == parse_auto_generated_variable(name, val)
            IN  IF random.matched THEN random.outcomes
                ELSE IF auto.kind # "none" THEN {auto}
                ELSE {[kind |-> "ok", var |-> SimpleVariable(name, Some(val), description)]}

----------------------------------------------------------------------------
(* The inputs the model is checked on.                                     *)

\* a template has at most MaxLines lines
MaxLines == 4
\* the operator types at most MaxTermLines lines before end-of-input
MaxTermLines == 3
\* the call stack holds MaxDepth nested ask_for_input calls above the first
MaxDepth == 2

TemplateLines ==
    {"", " \t", "# T", " #D ", "AB=1  # h", "AB=", "C=x{AB}", "AB", "aB=1", "B=2=3",
     "D=<random:1>", "E={}"}

\* what read_line appends for one line the operator types
TermLines == {"\n", " w \n"}

RandomCharsChoices == {"xy"}

Eof == [eof |-> TRUE, text |-> ""]
Line(text) == [eof |-> FALSE, text |-> text]

NoProbe == [fn |-> "none"]

\* CharReader::new
CharReader ==
    [line |-> 0, column |-> 0, current_line |-> None, done |-> FALSE]

\* CharType, and the Err of the Result that CharReader::next returns
CharTypeChar(c) == [type |-> "Char", char |-> c]
CharTypeEol == [type |-> "Eol"]
CharTypeEof == [type |-> "Eof"]
ReadError == [type |-> "Err"]

\* BufReader::read_line on the file: the text up to and with the next line
\* feed, or to the end of the file; size is the number of bytes read
read_line(src) ==
    LET rest == SliceFrom(src.text, src.pos)
        feed == Find(rest, "\n")
        size == IF feed = NotFound THEN Len(rest) ELSE feed + 1
    IN  [buffer |-> Slice(rest, 0, size), size |-> size,
         source |-> [src EXCEPT !.pos = @ + size]]

\* CharReader::next with a current line: line.chars().nth(self.column)
NextInLine(r, src, line) ==
    IF r.column < Len(line) /\ CharAt(line, r.column) # "\n"
    THEN [reader |-> [r EXCEPT !.column = @ + 1], source |-> src,
          ret |-> CharTypeChar(CharAt(line, r.column))]
    ELSE [reader |-> [r EXCEPT !.current_line = None], source |-> src, ret |-> CharTypeEol]

\* next with a call after the end of the file setting column back to 0
next_EofResetsColumn(r, src) ==
    IF r.done THEN [reader |-> [r EXCEPT !.column = 0], source |-> src, ret |-> CharTypeEof]
    ELSE IF ~IsSome(r.current_line)
    THEN LET read == read_line(src)
         IN  IF read.size = 0
             THEN [reader |-> [r EXCEPT !.done = TRUE], source |-> read.source,
                   ret |-> CharTypeEof]
             ELSE NextInLine([r EXCEPT !.current_line = Some(read.buffer),
                                       !.line = @ + 1, !.column = 0],
                             read.source, read.buffer)
    ELSE NextInLine(r, src, Unwrap(r.current_line))

\* next with column left as it is when a line is loaded
next_KeepsColumnOnLoad(r, src) ==
    IF r.done THEN [reader |-> r, source |-> src, ret |-> CharTypeEof]
    ELSE IF ~IsSome(r.current_line)
    THEN LET read == read_line(src)
         IN  IF read.size = 0
             THEN [reader |-> [r EXCEPT !.done = TRUE], source |-> read.source,
                   ret |-> CharTypeEof]
             ELSE NextInLine([r EXCEPT !.current_line = Some(read.buffer), !.line = @ + 1],
                             read.source, read.buffer)
    ELSE NextInLine(r, src, Unwrap(r.current_line))

\* CharReader::next where read_line succeeds: the reader and the file after
\* the call, and what the call returns
next(r, src) ==
    IF r.done THEN [reader |-> r, source |-> src, ret |-> CharTypeEof]
    ELSE IF ~IsSome(r.current_line)
    THEN LET read == read_line(src)
         IN  IF read.size = 0
             THEN [reader |-> [r EXCEPT !.done = TRUE], source |-> read.source,
                   ret |-> CharTypeEof]
             ELSE NextInLine([r EXCEPT !.current_line = Some(read.buffer),
                                       !.line = @ + 1, !.column = 0],
                             read.source, read.buffer)
    ELSE NextInLine(r, src, Unwrap(r.current_line))

\* Token
TokenText(line, column, txt) ==
    [kind |-> "Text", line |-> line, column |-> column, text |-> txt]
CommentMark(line, column) == [kind |-> "CommentMark", line |-> line, column |-> column]
HelpMark(line, column) == [kind |-> "HelpMark", line |-> line, column |-> column]
EqualSign(line, column) == [kind |-> "EqualSign", line |-> line, column |-> column]

\* what Iterator::next returns beside a token: None, Some(Err(e)); and the
\* process aborting inside the call
IteratorEnd == [kind |-> "End"]
IteratorErr == [kind |-> "Err"]
Panicked == [kind |-> "Panic"]

\* the characters of the files that take two bytes in UTF-8
TwoByteChars == {"é"}

\* String::len: the length in bytes
RECURSIVE ByteLen(_)
ByteLen(s) ==
    IF s = "" THEN 0
    ELSE IF Len(s) = 1 THEN (IF s \in TwoByteChars THEN 2 ELSE 1)
    ELSE ByteLen(Slice(s, 0, Len(s) \div 2)) + ByteLen(SliceFrom(s, Len(s) \div 2))

\* n as i8: the low 8 bits, as a signed number
I8_MIN == -128
I8_MAX == 127
AsI8(n) == ((n - I8_MIN) % 256) + I8_MIN

\* Tokenizer::text.  The sum is an i8 and the difference a usize: where one
\* of them overflows, a build with overflow checks panics and a build without
\* wraps, so the call has both outcomes.  `adjust as usize` is 2^64 + adjust
\* for a negative adjust; a column below 0 stands for 2^64 plus that number.
TokenizerText(r, buf, eol, prepends_help) ==
    LET base == IF eol /\ ~prepends_help THEN -1
                ELSE IF ~eol /\ prepends_help THEN 2 ELSE 0
        sum == base + AsI8(ByteLen(buf))
        adjust == AsI8(sum)
        overflows == sum < I8_MIN \/ sum > I8_MAX \/ adjust < 0 \/ adjust > r.column
    IN  {TokenText(r.line, r.column - adjust, Trim(buf))}
        \cup (IF overflows THEN {Panicked} ELSE {})

equal_sign(r) == EqualSign(r.line, r.column)
comment_mark(r) == CommentMark(r.line, r.column)

\* help_mark with the column of the hash itself
help_mark_AtTheHash(r) == HelpMark(r.line, r.column)

help_mark(r) == HelpMark(r.line, r.column - 2)

\* Tokenizer::new
TokenizerIdle ==
    /\ lookahead = None
    /\ scan = None
    /\ scanFirst = 0
    /\ tokens = <<>>

\* no CharReader is at work: the one there is was never called, on an empty file
ReaderIdle ==
    /\ reader = CharReader
    /\ source = [text |-> "", pos |-> 0]
    /\ yielded = <<>>

----------------------------------------------------------------------------
(* parser.rs: Parser.                                                      *)

Init ==
    /\ ReaderIdle
    /\ TokenizerIdle
    /\ state = "Title"
    /\ buffer = None
    /\ blocks = <<>>
    /\ lines = <<>>
    /\ atEof = FALSE
    /\ pc = "open"
    /\ result = "running"
    /\ error = None
    /\ random_chars \in RandomCharsChoices
    /\ askIdx = 0
    /\ askDepth = 0
    /\ prompts = <<>>
    /\ termReads = <<>>
    /\ probe = NoProbe

\* Fail with the error recorded and the loop of parse going on
Fail_KeepsGoing(e) ==
    /\ result' = "err"
    /\ error' = Some(e)
    /\ pc' = pc

\* parse returns Err(e)
Fail(e) ==
    /\ result' = "err"
    /\ error' = Some(e)
    /\ pc' = "done"

\* FinishFlush with the block appended and left in the buffer
FinishFlush_KeepsBuffer(block, at) ==
    LET resolved == ResolveContext(block)
    IN  IF ~IsSome(resolved)
        THEN /\ Fail([kind |-> "NoValue", line |-> Len(lines), text |-> ""])
             /\ buffer' = Some(block)
             /\ UNCHANGED <<blocks, state>>
        ELSE /\ blocks' = Append(blocks, Unwrap(resolved))
             /\ buffer' = Some(Unwrap(resolved))
             /\ IF at = "flush_blank"
                THEN /\ state' = "Title"
                     /\ pc' = "lines"
                     /\ UNCHANGED <<result, error>>
                ELSE /\ pc' = "done"
                     /\ result' = "ok"
                     /\ UNCHANGED <<state, error>>

\* FinishFlush with the reset of the state after a blank line left out
FinishFlush_NoReset(block, at) ==
    LET resolved == ResolveContext(block)
    IN  IF ~IsSome(resolved)
        THEN /\ Fail([kind |-> "NoValue", line |-> Len(lines), text |-> ""])
             /\ buffer' = Some(block)
             /\ UNCHANGED <<blocks, state>>
        ELSE /\ blocks' = Append(blocks, Unwrap(resolved))
             /\ buffer' = None
             /\ IF at = "flush_blank"
                THEN /\ pc' = "lines"
                     /\ UNCHANGED <<state, result, error>>
                ELSE /\ pc' = "done"
                     /\ result' = "ok"
                     /\ UNCHANGED <<state, error>>

\* Block::resolve from the end of its first loop, then the rest of
\* Parser::flush, then what parse does after flush returns: after a blank
\* line (at = "flush_blank") the state is reset and the loop goes on; after
\* the last line (at = "flush_eof") parse returns Ok
FinishFlush(block, at) ==
    LET resolved == ResolveContext(block)
    IN  IF ~IsSome(resolved)
        THEN /\ Fail([kind |-> "NoValue", line |-> Len(lines), text |-> ""])
             /\ buffer' = Some(block)
             /\ UNCHANGED <<blocks, state>>
        ELSE /\ blocks' = Append(blocks, Unwrap(resolved))
             /\ buffer' = None
             /\ IF at = "flush_blank"
                THEN /\ state' = "Title"
                     /\ pc' = "lines"
                     /\ UNCHANGED <<result, error>>
                ELSE /\ pc' = "done"
                     /\ result' = "ok"
                     /\ UNCHANGED <<state, error>>

\* Parser::flush, entered from parse: up to the first prompt of
\* Block::resolve, or through to its end when no variable is to be asked
\* (Block::resolve as model.rs has it: it takes the terminal alone and asks
\* for every input variable, so Parser.use_default has no part in it)
Flush(at) ==
    IF ~IsSome(buffer)
    THEN /\ state' = "Title"
         /\ UNCHANGED <<buffer, blocks, pc, result, error, askIdx, askDepth>>
    ELSE LET first == NextAsk(Unwrap(buffer).variables, 1)
         IN  IF first # 0
             THEN /\ pc' = at
                  /\ askIdx' = first
                  /\ askDepth' = 0
                  /\ UNCHANGED <<buffer, blocks, state, result, error>>
             ELSE /\ FinishFlush(Unwrap(buffer), at)
                  /\ UNCHANGED <<askIdx, askDepth>>

\* PushVariable with the variable taking the place of the ones before it
PushVariable_KeepsLast(variable) ==
    IF IsSome(buffer)
    THEN Some([Unwrap(buffer) EXCEPT !.variables = <<variable>>])
    ELSE buffer

\* b.variables.push(variable)
PushVariable(variable) ==
    IF IsSome(buffer)
    THEN Some([Unwrap(buffer) EXCEPT !.variables = Append(@, variable)])
    ELSE buffer

\* File::open succeeds
OpenFile ==
    /\ pc = "open"
    /\ pc' = "lines"
    /\ UNCHANGED <<state, buffer, blocks, lines, atEof, result, error, random_chars, askIdx,
                   askDepth, prompts, termReads, probe, ReaderVars, TokenizerVars>>

\* File::open fails
OpenFails ==
    /\ pc = "open"
    /\ Fail([kind |-> "Io", line |-> 0, text |-> ""])
    /\ UNCHANGED <<state, buffer, blocks, lines, atEof, random_chars, askIdx, askDepth,
                   prompts, termReads, probe, ReaderVars, TokenizerVars>>

\* one round of the loop over reader.lines(), on a blank line
ReadBlankLine(raw) ==
    /\ pc = "lines"
    /\ Len(lines) < MaxLines
    /\ Trim(raw) = ""
    /\ lines' = Append(lines, raw)
    /\ Flush("flush_blank")
    /\ UNCHANGED <<atEof, random_chars, prompts, termReads, probe, ReaderVars, TokenizerVars>>

\* ReadTitle keeping the text after the comment mark as it stands, untrimmed
ReadTitle_Untrimmed(raw) ==
    LET cleaned == Trim(raw)
        txt == StripPrefix(cleaned, "#")
    IN  /\ pc = "lines"
        /\ Len(lines) < MaxLines
        /\ cleaned # ""
        /\ state = "Title"
        /\ lines' = Append(lines, raw)
        /\ IF IsSome(txt)
           THEN /\ buffer' = Some(Block(Unwrap(txt), None))
                /\ state' = "DescriptionOrVariables"
                /\ UNCHANGED <<pc, result, error>>
           ELSE /\ Fail([kind |-> "UnexpectedTitle", line |-> Len(lines) + 1, text |-> cleaned])
                /\ UNCHANGED <<buffer, state>>
        /\ UNCHANGED <<blocks, atEof, random_chars, askIdx, askDepth, prompts, termReads, probe, ReaderVars, TokenizerVars>>

\* one round of the loop, on a non-blank line, in state Expecting::Title
ReadTitle(raw) ==
    LET cleaned == Trim(raw)
        txt == StripPrefix(cleaned, "#")
    IN  /\ pc = "lines"
        /\ Len(lines) < MaxLines
        /\ cleaned # ""
        /\ state = "Title"
        /\ lines' = Append(lines, raw)
        /\ IF IsSome(txt)
           THEN /\ buffer' = Some(Block(Trim(Unwrap(txt)), None))
                /\ state' = "DescriptionOrVariables"
                /\ UNCHANGED <<pc, result, error>>
           ELSE /\ Fail([kind |-> "UnexpectedTitle", line |-> Len(lines) + 1, text |-> cleaned])
                /\ UNCHANGED <<buffer, state>>
        /\ UNCHANGED <<blocks, atEof, random_chars, askIdx, askDepth, prompts, termReads, probe, ReaderVars, TokenizerVars>>

\* the two arms that hand the line to parse_variable
ReadVariable(cleaned) ==
    \E outcome \in parse_variable(Len(lines) + 1, cleaned, random_chars) :
        /\ CASE outcome.kind = "ok" ->
                    /\ buffer' = PushVariable(outcome.var)
                    /\ UNCHANGED <<pc, result, error>>
             [] outcome.kind = "err" ->
                    /\ Fail(outcome.error)
                    /\ UNCHANGED buffer
             [] outcome.kind = "panic" ->
                    /\ result' = "panic"
                    /\ pc' = "done"
                    /\ UNCHANGED <<buffer, error>>
        /\ UNCHANGED state

\* one round of the loop, on a non-blank line, in state
\* Expecting::DescriptionOrVariables
ReadDescriptionOrVariable(raw) ==
    LET cleaned == Trim(raw)
        txt == StripPrefix(cleaned, "#")
    IN  /\ pc = "lines"
        /\ Len(lines) < MaxLines
        /\ cleaned # ""
        /\ state = "DescriptionOrVariables"
        /\ lines' = Append(lines, raw)
        /\ IF IsSome(txt)
           THEN /\ buffer' = IF IsSome(buffer)
                             THEN Some([Unwrap(buffer) EXCEPT
                                            !.description = Some(Trim(Unwrap(txt)))])
                             ELSE buffer
                /\ state' = "Variables"
                /\ UNCHANGED <<pc, result, error>>
           ELSE ReadVariable(cleaned)
        /\ UNCHANGED <<blocks, atEof, random_chars, askIdx, askDepth, prompts, termReads, probe, ReaderVars, TokenizerVars>>

\* one round of the loop, on a non-blank line, in state Expecting::Variables
ReadVariableLine(raw) ==
    LET cleaned == Trim(raw)
    IN  /\ pc = "lines"
        /\ Len(lines) < MaxLines
        /\ cleaned # ""
        /\ state = "Variables"
        /\ lines' = Append(lines, raw)
        /\ ReadVariable(cleaned)
        /\ UNCHANGED <<blocks, atEof, random_chars, askIdx, askDepth, prompts, termReads, probe, ReaderVars, TokenizerVars>>

\* reader.lines() yields Err: line? returns it
ReadLineFails ==
    /\ pc = "lines"
    /\ Len(lines) < MaxLines
    /\ Fail([kind |-> "Io", line |-> Len(lines) + 1, text |-> ""])
    /\ UNCHANGED <<state, buffer, blocks, lines, atEof, random_chars, askIdx, askDepth,
                   prompts, termReads, probe, ReaderVars, TokenizerVars>>

\* EndOfInput without the check that the last block has variables
EndOfInput_NoVariablesCheck ==
    /\ pc = "lines"
    /\ atEof' = TRUE
    /\ IF ~IsSome(buffer)
       THEN /\ Fail([kind |-> "UnexpectedEof", line |-> Len(lines), text |-> state])
            /\ UNCHANGED <<state, buffer, blocks, askIdx, askDepth>>
       ELSE Flush("flush_eof")
    /\ UNCHANGED <<lines, random_chars, prompts, termReads, probe, ReaderVars, TokenizerVars>>

\* reader.lines() is over: the check of the last block, then the last flush
EndOfInput ==
    LET last_block_has_variables ==
            IF IsSome(buffer) THEN Unwrap(buffer).variables # <<>> ELSE FALSE
    IN  /\ pc = "lines"
        /\ atEof' = TRUE
        /\ IF ~last_block_has_variables
           THEN /\ Fail([kind |-> "UnexpectedEof", line |-> Len(lines), text |-> state])
                /\ UNCHANGED <<state, buffer, blocks, askIdx, askDepth>>
           ELSE Flush("flush_eof")
        /\ UNCHANGED <<lines, random_chars, prompts, termReads, probe, ReaderVars, TokenizerVars>>

----------------------------------------------------------------------------
(* model.rs: SimpleVariable::ask_for_input, called from the first loop of  *)
(* Block::resolve.  One step is one call: the prompt, one read_line, and   *)
(* either the nested call or the return to the loop.                       *)

\* end-of-input has been returned: every later read returns it too
TermExhausted == \E i \in 1..Len(termReads) : termReads[i].eof

TermLinesRead == Cardinality({i \in 1..Len(termReads) : ~termReads[i].eof})

\* what terminal.read_line may return now
TermNext ==
    {Eof} \cup
    (IF ~TermExhausted /\ TermLinesRead < MaxTermLines
     THEN {Line(l) : l \in TermLines} ELSE {})

\* Answered keeping the line as read, untrimmed
Answered_Untrimmed(var, text) ==
    IF Trim(text) # "" THEN [var EXCEPT !.input = Some(text)] ELSE var

\* the variable after ask_for_input read `text` and did not call itself
Answered(var, text) ==
    IF Trim(text) # "" THEN [var EXCEPT !.input = Some(Trim(text))] ELSE var

\* ask_for_input calls itself: the line is empty and there is no default
AsksAgain(var, text) == Trim(text) = "" /\ ~IsSome(var.default)

AskForInput(read) ==
    LET block == Unwrap(buffer)
        var == block.variables[askIdx]
        answered == [block EXCEPT !.variables[askIdx] = Answered(var, read.text)]
        following == NextAsk(answered.variables, askIdx + 1)
    IN  /\ pc \in {"flush_blank", "flush_eof"}
        /\ read \in TermNext
        /\ prompts' = Append(prompts, PromptText(var))
        /\ termReads' = Append(termReads, read)
        /\ IF AsksAgain(var, read.text)
           THEN \* an operator types at most MaxDepth empty lines at one prompt;
                \* after end-of-input the nesting only ends with the stack
                /\ read.eof \/ askDepth < MaxDepth
                /\ IF askDepth < MaxDepth
                   THEN /\ askDepth' = askDepth + 1
                        /\ UNCHANGED <<pc, result>>
                   ELSE /\ result' = "stack_overflow"
                        /\ pc' = "done"
                        /\ UNCHANGED askDepth
                /\ UNCHANGED <<state, buffer, blocks, error, askIdx>>
           ELSE IF following # 0
           THEN /\ buffer' = Some(answered)
                /\ askIdx' = following
                /\ askDepth' = 0
                /\ UNCHANGED <<state, blocks, pc, result, error>>
           ELSE /\ FinishFlush(answered, pc)
                /\ askIdx' = 0
                /\ askDepth' = 0
        /\ UNCHANGED <<lines, atEof, random_chars, probe, ReaderVars, TokenizerVars>>

\* stdout().flush() or terminal.read_line returns Err
AskForInputFails ==
    LET var == Unwrap(buffer).variables[askIdx]
    IN  /\ pc \in {"flush_blank", "flush_eof"}
        /\ prompts' = Append(prompts, PromptText(var))
        /\ Fail([kind |-> "Io", line |-> Len(lines), text |-> ""])
        /\ UNCHANGED <<state, buffer, blocks, lines, atEof, random_chars, askIdx, askDepth,
                       termReads, probe, ReaderVars, TokenizerVars>>

Next ==
    \/ OpenFile
    \/ OpenFails
    \/ \E raw \in TemplateLines : ReadBlankLine(raw)
    \/ \E raw \in TemplateLines : ReadTitle(raw)
    \/ \E raw \in TemplateLines : ReadDescriptionOrVariable(raw)
    \/ \E raw \in TemplateLines : ReadVariableLine(raw)
    \/ ReadLineFails
    \/ EndOfInput
    \/ \E read \in {Eof} \cup {Line(l) : l \in TermLines} : AskForInput(read)
    \/ AskForInputFails

Spec == Init /\ [][Next]_vars

----------------------------------------------------------------------------
(* What the properties below say about a step of the parser.               *)

LastOf(seq) == seq[Len(seq)]

\* the step reads one more line of the template
ReadsLine == Len(lines') = Len(lines) + 1

\* the step reads a non-blank line; CleanedLine is that line, trimmed
CleanedLine == Trim(LastOf(lines'))
ReadsNonBlank == pc = "lines" /\ ReadsLine /\ CleanedLine # ""

\* names as the data model has them: ^[A-Z][A-Z0-9_]*$
UpperCase == {"A", "B", "C", "D", "E", "F", "G", "H", "I", "J", "K", "L", "M", "N", "O",
              "P", "Q", "R", "S", "T", "U", "V", "W", "X", "Y", "Z"}
DigitChars == {"0", "1", "2", "3", "4", "5", "6", "7", "8", "9"}
MatchesNamePattern(s) ==
    /\ Len(s) >= 1
    /\ SubSeq(s, 1, 1) \in UpperCase
    /\ \A i \in 1..Len(s) : SubSeq(s, i, i) \in UpperCase \cup DigitChars \cup {"_"}

\* the 1-based positions of character c in s
Positions(s, c) == {i \in 1..Len(s) : SubSeq(s, i, i) = c}
Minimum(S) == CHOOSE x \in S : \A y \in S : x <= y

----------------------------------------------------------------------------
(* Properties of Parser::parse.                                            *)

\* C1: when the template ends while the buffered block (a title, with or
\* without a description) has no variable, parse returns the error about the
\* unexpected end of input, and the block is not appended to blocks.
C1_EmptyLastBlockIsAnError ==
    [][(~atEof /\ atEof' /\ IsSome(buffer) /\ Unwrap(buffer).variables = <<>>)
        => /\ result' = "err"
           /\ pc' = "done"
           /\ IsSome(error') /\ Unwrap(error').kind = "UnexpectedEof"
           /\ blocks' = blocks]_vars

\* a template of a title and a description, and nothing after: parse failed
\* and blocks is empty
C1_Witness ==
    /\ atEof
    /\ IsSome(buffer)
    /\ Unwrap(buffer).variables = <<>>
    /\ IsSome(Unwrap(buffer).description)
    /\ result = "err"
    /\ blocks = <<>>

\* C2: in state ExpectingTitle, a non-blank line that starts with the comment
\* mark buffers a new block, titled with the trimmed rest of the line, and the
\* state becomes ExpectingDescriptionOrVariables; any other non-blank line
\* makes parse return an error, and neither blocks nor the buffer gains a
\* block.
C2_TitleLine ==
    [][(ReadsNonBlank /\ state = "Title")
        => IF SubSeq(CleanedLine, 1, 1) = "#"
           THEN /\ buffer' = Some([title |-> Trim(SubSeq(CleanedLine, 2, Len(CleanedLine))),
                                   description |-> None,
                                   variables |-> <<>>])
                /\ state' = "DescriptionOrVariables"
                /\ result' = "running"
                /\ pc' = "lines"
                /\ blocks' = blocks
           ELSE /\ result' = "err"
                /\ pc' = "done"
                /\ IsSome(error') /\ Unwrap(error').kind = "UnexpectedTitle"
                /\ blocks' = blocks
                /\ buffer' = buffer
                /\ ~IsSome(buffer')]_vars

\* a title line with white space around its text was read as the title of a
\* second block
C2_Witness ==
    /\ Len(blocks) = 1
    /\ lines # <<>>
    /\ LastOf(lines) = " #D "
    /\ state = "DescriptionOrVariables"
    /\ buffer = Some([title |-> "D", description |-> None, variables |-> <<>>])

\* C3: within a block, a line that starts with the comment mark is taken as
\* the description only right after the title: once the block has a
\* description or a variable, a later non-blank line never sets the
\* description, and is either appended as a variable or ends the parse.
C3_DescriptionOnlyAfterTitle ==
    [][(/\ ReadsNonBlank
        /\ IsSome(buffer)
        /\ \/ IsSome(Unwrap(buffer).description)
           \/ Unwrap(buffer).variables # <<>>)
        => /\ IsSome(buffer')
           /\ Unwrap(buffer').description = Unwrap(buffer).description
           /\ \/ result' # "running"
              \/ Len(Unwrap(buffer').variables) = Len(Unwrap(buffer).variables) + 1]_vars

\* C4: after a blank line, whatever the state before it, the state is
\* ExpectingTitle and no block is buffered when the parser goes on to the
\* next line.
C4_BlankLineResets ==
    (pc = "lines" /\ lines # <<>> /\ Trim(LastOf(lines)) = "")
        => (state = "Title" /\ ~IsSome(buffer))

\* a blank line was read after a block with a description and a variable,
\* that is, in state ExpectingVariables
C4_Witness ==
    /\ pc = "lines"
    /\ lines # <<>>
    /\ Trim(LastOf(lines)) = ""
    /\ Len(blocks) = 1
    /\ IsSome(blocks[1].description)
    /\ blocks[1].variables # <<>>

\* C5: a line handed to the classifier is split at its first equal sign; with
\* no equal sign, or with a left side that is not a valid name, parse returns
\* an error and the block gains no variable; otherwise the block gains one
\* variable, named by the text left of the first equal sign.
C5_ClassifierSplitsAtFirstEqualSign ==
    [][(/\ ReadsNonBlank
        /\ IsSome(buffer)
        /\ \/ state = "Variables"
           \/ state = "DescriptionOrVariables" /\ SubSeq(CleanedLine, 1, 1) # "#")
        => LET equals == Positions(CleanedLine, "=")
               left == SubSeq(CleanedLine, 1, Minimum(equals) - 1)
           IN  IF equals = {} \/ ~MatchesNamePattern(left)
               THEN /\ result' = "err"
                    /\ buffer' = buffer
               ELSE /\ result' = "running"
                    /\ IsSome(buffer')
                    /\ Len(Unwrap(buffer').variables) = Len(Unwrap(buffer).variables) + 1
                    /\ LastOf(Unwrap(buffer').variables).name = left
                    /\ SubSeq(Unwrap(buffer').variables, 1, Len(Unwrap(buffer).variables))
                           = Unwrap(buffer).variables]_vars

----------------------------------------------------------------------------
(* The pure functions, each applied to inputs drawn from a bounded set.    *)

\* every string of exactly n characters from the set chars
RECURSIVE StringsOfLen(_, _)
StringsOfLen(chars, n) ==
    IF n = 0 THEN {""}
    ELSE {s \o c : s \in StringsOfLen(chars, n - 1), c \in chars}

StringsUpTo(chars, n) == UNION {StringsOfLen(chars, k) : k \in 0..n}

\* the parser as Parser::new leaves it
ParserNew ==
    /\ state = "Title"
    /\ buffer = None
    /\ blocks = <<>>
    /\ lines = <<>>
    /\ atEof = FALSE
    /\ pc = "open"
    /\ result = "running"
    /\ error = None
    /\ random_chars \in RandomCharsChoices
    /\ askIdx = 0
    /\ askDepth = 0
    /\ prompts = <<>>
    /\ termReads = <<>>

\* neither the parser nor a reader is running while a function is applied on
\* its own
ParserIdle == ParserNew /\ ReaderIdle /\ TokenizerIdle

ParserVars == <<state, buffer, blocks, lines, atEof, pc, result, error, random_chars, askIdx,
                askDepth, prompts, termReads>>

\* values handed to is_auto_generated_variable: braces, a character a name
\* may hold, one it may not
MaxValueLen == 4
ValueChars == {"{", "}", "A", "a"}

InitAuto ==
    /\ ParserIdle
    /\ \E value \in StringsUpTo(ValueChars, MaxValueLen) \ {""} :
           probe = [fn |-> "is_auto_generated_variable", value |-> value, done |-> FALSE,
                    out |-> [panics |-> FALSE, ret |-> FALSE]]

CallIsAutoGenerated ==
    /\ probe.fn = "is_auto_generated_variable"
    /\ ~probe.done
    /\ probe' = [probe EXCEPT !.done = TRUE, !.out = is_auto_generated_variable(probe.value)]
    /\ UNCHANGED <<ParserVars, ReaderVars, TokenizerVars>>

NextAuto == CallIsAutoGenerated

SpecAuto == InitAuto /\ [][NextAuto]_vars

\* patterns and contexts handed to AutoGeneratedVariable::value; the context
\* holds what the operator typed or a default, under the names of variables
MaxPatternLen == 4
PatternChars == {"{", "}", "A", "B", "x"}
ContextKeys == {"A", "B"}
ContextValues == {"x", "", "{B}", "{A}"}
Contexts == UNION {[keys -> ContextValues] : keys \in SUBSET ContextKeys}

InitValue ==
    /\ ParserIdle
    /\ \E pattern \in StringsUpTo(PatternChars, MaxPatternLen), context \in Contexts :
           probe = [fn |-> "value",
                    var |-> load_context(AutoGeneratedVariable("V", pattern), context),
                    done |-> FALSE, out |-> ""]

CallValue ==
    /\ probe.fn = "value"
    /\ ~probe.done
    /\ \E out \in AutoGeneratedValues(probe.var) :
           probe' = [probe EXCEPT !.done = TRUE, !.out = out]
    /\ UNCHANGED <<ParserVars, ReaderVars, TokenizerVars>>

NextValue == CallValue

SpecValue == InitValue /\ [][NextValue]_vars

----------------------------------------------------------------------------
(* Properties of the classifier's predicates and of the variable model.    *)

\* value holds {NAME} somewhere, NAME a valid name
HasValidPlaceholder(value) ==
    \E i, j \in 1..Len(value) :
        /\ i < j
        /\ SubSeq(value, i, i) = "{"
        /\ SubSeq(value, j, j) = "}"
        /\ MatchesNamePattern(SubSeq(value, i + 1, j - 1))

\* C6: a non-empty value is classified as auto-generated exactly when it
\* holds a placeholder {NAME} with NAME a valid name of one character or
\* more, wherever in the value the placeholder is.
C6_AutoGeneratedIffValidPlaceholder ==
    (probe.fn = "is_auto_generated_variable" /\ probe.done)
        => /\ ~probe.out.panics
           /\ probe.out.ret <=> HasValidPlaceholder(probe.value)

\* the pattern with the placeholders of the context's names replaced, each
\* occurrence once, in one pass from the left
RECURSIVE Substituted(_, _)
Substituted(pattern, context) ==
    IF pattern = "" THEN ""
    ELSE LET here == {k \in DOMAIN context : StartsWith(pattern, "{" \o k \o "}")}
         IN  IF here # {}
             THEN LET k == CHOOSE k \in here : TRUE
                  IN  context[k] \o Substituted(SliceFrom(pattern, Len(k) + 2), context)
             ELSE CharAt(pattern, 0) \o Substituted(SliceFrom(pattern, 1), context)

\* C7: value() is the pattern with every occurrence of {NAME} replaced by
\* context[NAME], for the names of the context, the other placeholders left
\* as they are.
C7_ValueIsThePatternSubstituted ==
    (probe.fn = "value" /\ probe.done)
        => probe.out = Substituted(probe.var.pattern, probe.var.context)

----------------------------------------------------------------------------
(* Properties of the resolver.                                             *)

\* the variables of a block that are not auto-generated, by index
InputIndexes(block) ==
    {j \in 1..Len(block.variables) : block.variables[j].kind # "AutoGenerated"}

AutoIndexes(block) ==
    {i \in 1..Len(block.variables) : block.variables[i].kind = "AutoGenerated"}

\* the resolved value of an input variable
ResolvedValue(var) == IF IsSome(var.input) THEN var.input ELSE var.default

\* no context is loaded while a block is buffered, that is, before the last
\* of its input variables was asked
NoContextBeforeResolved ==
    IsSome(buffer) =>
        \A i \in AutoIndexes(Unwrap(buffer)) :
            DOMAIN Unwrap(buffer).variables[i].context = {}

\* every entry of a loaded context is the name and resolved value of an
\* input variable of the block
NoEntryFromAutoGenerated ==
    \A b \in 1..Len(blocks) : \A i \in AutoIndexes(blocks[b]) :
        LET context == blocks[b].variables[i].context
        IN  \A k \in DOMAIN context :
                \E j \in InputIndexes(blocks[b]) :
                    /\ blocks[b].variables[j].name = k
                    /\ Some(context[k]) = ResolvedValue(blocks[b].variables[j])

\* C8 as stated: the context of every auto-generated variable is loaded after
\* all input variables of the block are resolved, holds name -> resolved
\* value for every variable of the block that is not auto-generated, declared
\* before or after it, and holds nothing an auto-generated variable gave.
C8_ContextHoldsEveryInputVariable ==
    /\ NoContextBeforeResolved
    /\ NoEntryFromAutoGenerated
    /\ \A b \in 1..Len(blocks) : \A i \in AutoIndexes(blocks[b]) :
           LET context == blocks[b].variables[i].context
           IN  \A j \in InputIndexes(blocks[b]) :
                   /\ IsSome(ResolvedValue(blocks[b].variables[j]))
                   /\ blocks[b].variables[j].name \in DOMAIN context
                   /\ Some(context[blocks[b].variables[j].name])
                          = ResolvedValue(blocks[b].variables[j])

\* C8, amended: as C8, with the context holding, under the name of every
\* variable that is not auto-generated, the resolved value of the last
\* declared of the variables of that name that are not auto-generated.
C8_ContextHoldsLastOfEachName ==
    /\ NoContextBeforeResolved
    /\ NoEntryFromAutoGenerated
    /\ \A b \in 1..Len(blocks) : \A i \in AutoIndexes(blocks[b]) :
           LET context == blocks[b].variables[i].context
           IN  \A j \in InputIndexes(blocks[b]) :
                   LET name == blocks[b].variables[j].name
                       last == CHOOSE l \in InputIndexes(blocks[b]) :
                                   /\ blocks[b].variables[l].name = name
                                   /\ \A m \in InputIndexes(blocks[b]) :
                                          blocks[b].variables[m].name = name => m <= l
                   IN  /\ IsSome(ResolvedValue(blocks[b].variables[j]))
                       /\ name \in DOMAIN context
                       /\ Some(context[name]) = ResolvedValue(blocks[b].variables[last])

\* an auto-generated variable declared before the variable it refers to, and
\* what the operator typed for that variable in its context
C8_Witness ==
    /\ Len(blocks) = 1
    /\ Len(blocks[1].variables) = 2
    /\ blocks[1].variables[1].kind = "AutoGenerated"
    /\ blocks[1].variables[2].kind = "Input"
    /\ blocks[1].variables[2].input = Some("w")
    /\ DOMAIN blocks[1].variables[1].context = {"AB"}
    /\ blocks[1].variables[1].context["AB"] = "w"

\* C9: when the operator's input is exhausted, resolving a variable with no
\* default fails the parse with an error naming the variable: the prompt is
\* not repeated after end-of-input was read for it.
C9_ExhaustedInputFailsTheParse ==
    (/\ TermExhausted
     /\ IsSome(buffer)
     /\ askIdx # 0
     /\ ~IsSome(Unwrap(buffer).variables[askIdx].default)
     /\ askDepth > 0)
        => /\ result = "err"
           /\ IsSome(error)
           /\ Unwrap(error).text = Unwrap(buffer).variables[askIdx].name

\* the step is one call of ask_for_input that read the terminal
AsksOnce == Len(termReads') = Len(termReads) + 1

\* C10: the line the operator types is trimmed; with no default an empty line
\* is rejected and the prompt repeats, and a non-empty line becomes input;
\* with a default an empty line leaves input absent, so that the value is the
\* default, and a non-empty line becomes input and is the value.  Once
\* ask_for_input has returned, the variable has a value.
C10_AskForInput ==
    [][AsksOnce =>
        LET read == LastOf(termReads')
            typed == Trim(read.text)
            var == Unwrap(buffer).variables[askIdx]
            returned == askIdx' # askIdx
            after == IF IsSome(buffer')
                     THEN Unwrap(buffer').variables[askIdx]
                     ELSE LastOf(blocks').variables[askIdx]
        IN  /\ (~read.eof /\ ~IsSome(var.default) /\ typed = "")
                => /\ ~returned
                   /\ pc' = pc
                   /\ result' = "running"
                   /\ after = var
            /\ (~read.eof /\ ~IsSome(var.default) /\ typed # "")
                => /\ returned
                   /\ after.input = Some(typed)
                   /\ SimpleValue(after) = Some(typed)
            /\ (~read.eof /\ IsSome(var.default) /\ typed = "")
                => /\ returned
                   /\ after.input = None
                   /\ SimpleValue(after) = var.default
            /\ (~read.eof /\ IsSome(var.default) /\ typed # "")
                => /\ returned
                   /\ after.input = Some(typed)
                   /\ SimpleValue(after) = Some(typed)
            /\ returned => IsSome(SimpleValue(after))]_vars

\* a resolved block with a variable whose default the operator overrode and
\* a variable with no default that was asked again after an empty line
C10_Witness ==
    /\ Len(blocks) = 1
    /\ \E i \in 1..Len(blocks[1].variables) :
           /\ blocks[1].variables[i].kind = "Input"
           /\ blocks[1].variables[i].default = Some("1")
           /\ blocks[1].variables[i].input = Some("w")
    /\ \E i \in 1..Len(blocks[1].variables) :
           /\ blocks[1].variables[i].kind = "Input"
           /\ blocks[1].variables[i].default = None
           /\ blocks[1].variables[i].input = Some("w")
    /\ \E i \in 1..Len(termReads) : termReads[i] = Line("\n")

----------------------------------------------------------------------------
(* Random values: Parser::parse_random_variable on a request for a random  *)
(* value, under a configured alphabet, and VariableWithRandomValue::new.   *)

\* the length asked for is at most MaxRandomLen
MaxRandomLen == 3
\* VariableWithRandomValue::new is given a length of at most MaxNewLen
MaxNewLen == 1

\* the alphabets Parser::new is given.  With the length left out the value
\* has 64 to 128 characters: the strings over two characters or more are too
\* many to enumerate, and the alphabets are then those of one character.
RandomAlphabets == {"", "x", "xy"}

\* n in decimal, as a template writes it
RECURSIVE Decimal(_)
Decimal(n) ==
    IF n < 10 THEN CharAt(Digits, n) ELSE Decimal(n \div 10) \o CharAt(Digits, n % 10)

RandomRequest(size) ==
    IF IsSome(size) THEN "<random:" \o Decimal(Unwrap(size)) \o ">" ELSE "<random>"

InitRandom ==
    /\ ParserIdle
    /\ \/ \E chars \in RandomAlphabets, size \in {None} \cup {Some(n) : n \in 0..MaxRandomLen} :
              /\ ~IsSome(size) => Len(chars) <= 1
              /\ probe = [fn |-> "parse_random_variable", chars |-> chars, size |-> size,
                          value |-> RandomRequest(size), done |-> FALSE,
                          out |-> [kind |-> "pending"]]
       \/ \E n \in 0..MaxNewLen :
              probe = [fn |-> "VariableWithRandomValue", chars |-> DEFAULT_RANDOM_CHARS,
                       size |-> Some(n), value |-> "", done |-> FALSE,
                       out |-> [kind |-> "pending"]]

CallParseRandomVariable ==
    /\ probe.fn = "parse_random_variable"
    /\ ~probe.done
    /\ LET r == parse_random_variable("D", None, probe.value, probe.chars)
       IN  \E out \in (IF r.matched THEN r.outcomes ELSE {[kind |-> "none"]}) :
               probe' = [probe EXCEPT !.done = TRUE, !.out = out]
    /\ UNCHANGED <<ParserVars, ReaderVars, TokenizerVars>>

CallRandomValueNew ==
    /\ probe.fn = "VariableWithRandomValue"
    /\ ~probe.done
    /\ \E var \in VariableWithRandomValue("D", probe.size) :
           probe' = [probe EXCEPT !.done = TRUE, !.out = [kind |-> "ok", var |-> var]]
    /\ UNCHANGED <<ParserVars, ReaderVars, TokenizerVars>>

NextRandom == CallParseRandomVariable \/ CallRandomValueNew

SpecRandom == InitRandom /\ [][NextRandom]_vars

\* the characters of s are all characters of chars
DrawnFrom(s, chars) ==
    \A i \in 1..Len(s) : \E j \in 1..Len(chars) : SubSeq(s, i, i) = SubSeq(chars, j, j)

\* C11: the string generated for <random:N> has exactly N characters, the one
\* generated for <random> has 64 to 128 characters, and every character of
\* either is a character of the configured alphabet, which is not empty.
C11_RandomValueLengthAndAlphabet ==
    /\ (probe.fn = "parse_random_variable" /\ probe.done /\ probe.chars # "")
        => /\ probe.out.kind = "ok"
           /\ probe.out.var.kind = "Input"
           /\ IsSome(probe.out.var.default)
           /\ LET generated == Unwrap(probe.out.var.default)
              IN  /\ IsSome(probe.size) => Len(generated) = Unwrap(probe.size)
                  /\ ~IsSome(probe.size) => (64 <= Len(generated) /\ Len(generated) <= 128)
                  /\ DrawnFrom(generated, probe.chars)
    /\ (probe.fn = "VariableWithRandomValue" /\ probe.done)
        => /\ Len(probe.out.var.value) = Unwrap(probe.size)
           /\ DrawnFrom(probe.out.var.value, probe.chars)

\* <random> gave a string of 128 characters
C11_Witness ==
    /\ probe.fn = "parse_random_variable"
    /\ probe.done
    /\ probe.value = "<random>"
    /\ probe.chars = "x"
    /\ probe.out.kind = "ok"
    /\ Len(Unwrap(probe.out.var.default)) = 128

----------------------------------------------------------------------------
(* is_random_variable on its own.                                          *)

\* what stands between the prefix and the closing bracket has at most
\* MaxNumberLen characters
MaxNumberLen == 3
NumberChars == {":", "0", "1", "+", "-", "x"}

\* the values handed to is_random_variable: with and without the opening
\* bracket, with and without the closing one, and one number past usize
RandomValues ==
    {p \o n \o c : p \in {"<random", "random"},
                   n \in StringsUpTo(NumberChars, MaxNumberLen),
                   c \in {">", ""}}
    \cup {"<random:18446744073709551616>", "<random:x>", "", "<random:42>", "random:42"}

InitDetect ==
    /\ ParserIdle
    /\ \E value \in RandomValues :
           probe = [fn |-> "is_random_variable", value |-> value, done |-> FALSE,
                    out |-> <<FALSE, None>>]

CallIsRandomVariable ==
    /\ probe.fn = "is_random_variable"
    /\ ~probe.done
    /\ probe' = [probe EXCEPT !.done = TRUE, !.out = is_random_variable(probe.value)]
    /\ UNCHANGED <<ParserVars, ReaderVars, TokenizerVars>>

NextDetect == CallIsRandomVariable

SpecDetect == InitDetect /\ [][NextDetect]_vars

\* s is one decimal digit or more
IsIntegerLiteral(s) == Len(s) >= 1 /\ \A i \in 1..Len(s) : SubSeq(s, i, i) \in DigitChars

\* the number a string of digits writes, from its last digit back
RECURSIVE LiteralValue(_)
LiteralValue(s) ==
    IF s = "" THEN 0
    ELSE 10 * LiteralValue(SubSeq(s, 1, Len(s) - 1))
         + (CHOOSE k \in 0..9 : Decimal(k) = SubSeq(s, Len(s), Len(s)))

\* value is <random:N> and s is its N
IsSizedRequest(value, s) == value = "<random:" \o s \o ">" /\ IsIntegerLiteral(s)

\* C12: is_random_variable matches exactly <random>, reporting no length, and
\* <random:N> with N a non-negative integer literal, reporting the length N;
\* any other value does not match and reports no length.  (The length is
\* compared for the literals of at most nine digits.)
C12_RandomDetection ==
    (probe.fn = "is_random_variable" /\ probe.done)
    => LET value == probe.value
           digits == {s \in {SubSeq(value, 9, Len(value) - 1)} : IsSizedRequest(value, s)}
       IN  IF value = "<random>" THEN probe.out = <<TRUE, None>>
           ELSE IF digits # {}
           THEN /\ probe.out[1]
                /\ \A s \in digits :
                       Len(s) <= 9 => probe.out[2] = Some(LiteralValue(s))
           ELSE probe.out = <<FALSE, None>>

\* C12, on the values whose number has no sign and fits usize
C12_UnsignedAndInRange ==
    (/\ probe.fn = "is_random_variable"
     /\ \A i \in 1..Len(probe.value) : SubSeq(probe.value, i, i) # "+"
     /\ Len(probe.value) <= 20)
    => C12_RandomDetection

----------------------------------------------------------------------------
(* is_valid_name on its own.                                               *)

\* names of at most MaxNameLen characters: upper-case letters, a digit, the
\* underscore, a lower-case letter and a character no name may hold
MaxNameLen == 3
NameProbeChars == {"A", "Z", "5", "_", "a", "-"}

InitName ==
    /\ ParserIdle
    /\ \E name \in StringsUpTo(NameProbeChars, MaxNameLen) :
           probe = [fn |-> "is_valid_name", value |-> name, done |-> FALSE, out |-> FALSE]

CallIsValidName ==
    /\ probe.fn = "is_valid_name"
    /\ ~probe.done
    /\ probe' = [probe EXCEPT !.done = TRUE, !.out = is_valid_name(probe.value)]
    /\ UNCHANGED <<ParserVars, ReaderVars, TokenizerVars>>

NextName == CallIsValidName

SpecName == InitName /\ [][NextName]_vars

\* C13: is_valid_name(s) is true exactly when s is not empty, its first
\* character is an upper-case ASCII letter, and every character of s is an
\* upper-case ASCII letter, a digit or an underscore.
C13_ValidName ==
    (probe.fn = "is_valid_name" /\ probe.done)
    => (probe.out <=>
            /\ probe.value # ""
            /\ SubSeq(probe.value, 1, 1) \in UpperCase
            /\ \A i \in 1..Len(probe.value) :
                   SubSeq(probe.value, i, i) \in UpperCase \cup DigitChars \cup {"_"})

\* a name that starts with a digit and holds name characters only was refused
C13_Witness ==
    /\ probe.fn = "is_valid_name"
    /\ probe.done
    /\ probe.value = "5A_"
    /\ ~probe.out

----------------------------------------------------------------------------
(* Parser::parse_variable on its own: the classifier on one trimmed line.  *)

\* what follows the first equal sign has at most MaxRestLen characters of
\* RestChars, or is one of RestSamples
MaxRestLen == 6
RestChars == {" ", "#", "1", "h"}
RestSamples == {"1=2  # h=", "{AB}", "x{AB}  # h", "{A}", "{Aa}", "{}", "{a}  # {AB}",
                "<random:1>", "<random:1>  # h", "<random:+1>", "<random:x>", "random:1"}

\* the lines Parser::parse hands over are trimmed
ClassifierLines ==
    {line \in {"AB=" \o rest : rest \in StringsUpTo(RestChars, MaxRestLen) \cup RestSamples} :
        Trim(line) = line}

InitClassify ==
    /\ ParserIdle
    /\ \E line \in ClassifierLines :
           probe = [fn |-> "parse_variable", line |-> line, done |-> FALSE,
                    out |-> [kind |-> "pending"]]

CallParseVariable ==
    /\ probe.fn = "parse_variable"
    /\ ~probe.done
    /\ \E out \in parse_variable(1, probe.line, random_chars) :
           probe' = [probe EXCEPT !.done = TRUE, !.out = out]
    /\ UNCHANGED <<ParserVars, ReaderVars, TokenizerVars>>

NextClassify == CallParseVariable

SpecClassify == InitClassify /\ [][NextClassify]_vars

\* the 1-based positions at which sep occurs in s
Occurrences(s, sep) ==
    {i \in 1..(Len(s) - Len(sep) + 1) : SubSeq(s, i, i + Len(sep) - 1) = sep}

\* the text right of the first equal sign of line
RightOfEqual(line) == SubSeq(line, Minimum(Positions(line, "=")) + 1, Len(line))

\* the value and the help of a line, split at the first "  # " of the text
\* right of the first equal sign
ValueOf(line) ==
    LET rest == RightOfEqual(line)
        at == Occurrences(rest, "  # ")
    IN  IF at = {} THEN rest ELSE SubSeq(rest, 1, Minimum(at) - 1)
HelpOf(line) ==
    LET rest == RightOfEqual(line)
        at == Occurrences(rest, "  # ")
    IN  IF at = {} THEN None ELSE Some(SubSeq(rest, Minimum(at) + 4, Len(rest)))

\* value asks for a random value, as the template syntax writes it
IsRandomRequest(value) ==
    value = "<random>" \/ IsSizedRequest(value, SubSeq(value, 9, Len(value) - 1))

\* C14: the text right of the first equal sign is split at the first
\* two-spaces-hash-space into value and help, help being absent when that
\* separator does not occur; an empty value gives a SimpleVariable with no
\* default and the parsed help; a non-empty value that is neither a random
\* request nor an auto-generated pattern gives a SimpleVariable whose default
\* is exactly the value.
C14_ClassifierSplitsValueAndHelp ==
    (probe.fn = "parse_variable" /\ probe.done)
    => LET value == ValueOf(probe.line)
           name == SubSeq(probe.line, 1, Minimum(Positions(probe.line, "=")) - 1)
       IN  /\ value = ""
               => probe.out = [kind |-> "ok",
                               var |-> [kind |-> "Input", name |-> name, default |-> None,
                                        help |-> HelpOf(probe.line), input |-> None]]
           /\ (value # "" /\ ~IsRandomRequest(value) /\ ~HasValidPlaceholder(value))
               => probe.out = [kind |-> "ok",
                               var |-> [kind |-> "Input", name |-> name,
                                        default |-> Some(value),
                                        help |-> HelpOf(probe.line), input |-> None]]

\* C14, on the lines whose value has no brace and no plus sign
C14_WithoutBraceOrPlus ==
    (/\ probe.fn = "parse_variable"
     /\ \A i \in 1..Len(probe.line) : SubSeq(probe.line, i, i) \notin {"{", "}", "+"})
    => C14_ClassifierSplitsValueAndHelp

----------------------------------------------------------------------------
(* The blocks of a parsed template, against the lines of the template.     *)

\* the elements of a set of numbers, in increasing order
RECURSIVE Ascending(_)
Ascending(S) == IF S = {} THEN <<>> ELSE <<Minimum(S)>> \o Ascending(S \ {Minimum(S)})

\* line i of the template read so far, trimmed
CleanedAt(i) == Trim(lines[i])

\* the lines that open a titled block: a non-blank line at the top of the
\* template or right after a blank line
TitleLines == {i \in 1..Len(lines) : CleanedAt(i) # "" /\ (i = 1 \/ CleanedAt(i - 1) = "")}

\* the variable lines of the block opened at line t, in template order: the
\* lines down to the next blank line that are not comment lines
VariableLinesOf(t) ==
    Ascending({i \in (t + 1)..Len(lines) :
                 /\ \A j \in t..i : CleanedAt(j) # ""
                 /\ SubSeq(CleanedAt(i), 1, 1) # "#"})

\* the variable is the one line i declares
DeclaredAt(var, i) ==
    LET line == CleanedAt(i)
        value == ValueOf(line)
    IN  /\ var.name = SubSeq(line, 1, Minimum(Positions(line, "=")) - 1)
        /\ var.kind = "AutoGenerated" => var.pattern = value
        /\ var.kind = "Input"
            => /\ var.help = HelpOf(line)
               /\ ~IsRandomRequest(value)
                   => var.default = (IF value = "" THEN None ELSE Some(value))

\* C15: after a successful parse, blocks holds one block per titled block of
\* the template, in template order, and the variables of each block are its
\* variable lines, one variable per line, in the order of the lines.
C15_BlocksFollowTheTemplate ==
    result = "ok"
    => LET titles == Ascending(TitleLines)
       IN  /\ Len(blocks) = Len(titles)
           /\ \A k \in 1..Len(titles) :
                  LET declared == VariableLinesOf(titles[k])
                  IN  /\ blocks[k].title = Trim(SubSeq(CleanedAt(titles[k]), 2, Len(CleanedAt(titles[k]))))
                      /\ Len(blocks[k].variables) = Len(declared)
                      /\ \A v \in 1..Len(declared) :
                             DeclaredAt(blocks[k].variables[v], declared[v])

\* a template of one block with variables of two names or more was parsed
C15_Witness ==
    /\ result = "ok"
    /\ Len(blocks) = 1
    /\ Len(blocks[1].variables) >= 2
    /\ blocks[1].variables[1].name # blocks[1].variables[2].name

----------------------------------------------------------------------------
(* The first error ends Parser::parse.                                     *)

\* C16: the first error of parse (a malformed title, a malformed variable
\* line, a failure of the resolver, an I/O error) ends the parse at once: the
\* step that fails appends no block and buffers none, and after it no line of
\* the template is read or classified, no block is buffered or appended and
\* no prompt is issued.
C16_FirstErrorEndsTheParse ==
    [][/\ (result = "running" /\ result' = "err")
           => /\ blocks' = blocks
              /\ buffer' = buffer
              /\ IsSome(error')
       /\ result = "err"
           => UNCHANGED <<result, error, lines, atEof, state, buffer, blocks, prompts,
                          termReads, askIdx, askDepth>>]_vars

\* parse failed on a line with a block buffered and lines left to read
C16_Witness ==
    /\ result = "err"
    /\ IsSome(buffer)
    /\ Len(lines) < MaxLines
    /\ Unwrap(error).kind \in {"InvalidVariableLine", "InvalidVariableName"}

----------------------------------------------------------------------------
(* Block::as_text on its own: a block built with Block::new and push, its  *)
(* variables answered or not, resolved or not.                             *)

\* a block holds at most MaxVars variables
MaxVars == 2

\* a variable with a default and a help, one that was answered, one with no
\* value at all, an auto-generated one and a random one
RenderVariables ==
    {SimpleVariable("AB", Some("1"), Some("h")),
     [SimpleVariable("AB", None, None) EXCEPT !.input = Some("w")],
     SimpleVariable("C", None, Some("h")),
     AutoGeneratedVariable("D", "x{AB}"),
     [kind |-> "Random", name |-> "E", value |-> "xy"]}

VariableSeqs == UNION {[1..n -> RenderVariables] : n \in 0..MaxVars}

BuiltBlocks ==
    {[Block("T", description) EXCEPT !.variables = variables] :
        description \in {None, Some("D")}, variables \in VariableSeqs}

\* the blocks as built, and as Block::resolve leaves them
RenderBlocks ==
    BuiltBlocks
    \cup {Unwrap(ResolveContext(block)) :
             block \in {b \in BuiltBlocks : IsSome(ResolveContext(b))}}

InitRender ==
    /\ ParserIdle
    /\ \E block \in RenderBlocks :
           probe = [fn |-> "as_text", block |-> block, done |-> FALSE,
                    out |-> [kind |-> "pending"]]

CallAsText ==
    /\ probe.fn = "as_text"
    /\ ~probe.done
    /\ \E out \in as_text(probe.block) :
           probe' = [probe EXCEPT !.done = TRUE, !.out = out]
    /\ UNCHANGED <<ParserVars, ReaderVars, TokenizerVars>>

NextRender == CallAsText

SpecRender == InitRender /\ [][NextRender]_vars

\* the lines of a text, split at its line feeds
TextLines(text) ==
    LET feeds == Ascending(Positions(text, "\n"))
        bounds == <<0>> \o feeds \o <<Len(text) + 1>>
    IN  [k \in 1..(Len(feeds) + 1) |-> SubSeq(text, bounds[k] + 1, bounds[k + 1] - 1)]

\* the values a rendered line may show for a variable
ResolvedValues(var) ==
    IF var.kind = "Input"
    THEN {v \in {IF IsSome(var.input) THEN var.input ELSE var.default} : IsSome(v)}
    ELSE IF var.kind = "Random" THEN {Some(var.value)}
    ELSE {Some(v) : v \in AutoGeneratedValues(var)}

\* C17: the lines of the text Block::as_text returns are, in order, the title
\* as "# <title>", the description as "# <description>" exactly when the
\* block has one, and one NAME=value line per variable in declaration order,
\* value being the resolved value of the variable, with no help after it.
C17_BlockAsText ==
    (probe.fn = "as_text" /\ probe.done /\ probe.out.kind = "ok")
    => LET block == probe.block
           rendered == TextLines(probe.out.text)
           described == IF IsSome(block.description) THEN 1 ELSE 0
       IN  /\ Len(rendered) = 1 + described + Len(block.variables)
           /\ rendered[1] = "# " \o block.title
           /\ IsSome(block.description) => rendered[2] = "# " \o Unwrap(block.description)
           /\ \A v \in 1..Len(block.variables) :
                  \E value \in ResolvedValues(block.variables[v]) :
                      rendered[1 + described + v]
                          = block.variables[v].name \o "=" \o Unwrap(value)

\* a block with a description, an answered variable and an auto-generated one
\* that uses the answer was rendered
C17_Witness ==
    /\ probe.fn = "as_text"
    /\ probe.done
    /\ probe.out = [kind |-> "ok", text |-> "# T\n# D\nAB=w\nD=xw"]

----------------------------------------------------------------------------
(* Block::resolve called on a block its caller built, some of its input    *)
(* variables answered beforehand.  The block is held in buffer while       *)
(* resolve runs and is appended to blocks once resolve has returned Ok, as *)
(* in Parser::flush.                                                       *)

ResolveVariables ==
    RenderVariables \cup {[SimpleVariable("C", Some("1"), None) EXCEPT !.input = Some("v")]}

ResolveBlocks ==
    {[Block("T", None) EXCEPT !.variables = variables] :
        variables \in UNION {[1..n -> ResolveVariables] : n \in 0..MaxVars}}

InitResolve ==
    /\ \E block \in ResolveBlocks :
           /\ buffer = Some(block)
           /\ probe = [fn |-> "resolve", block |-> block]
    /\ ReaderIdle
    /\ TokenizerIdle
    /\ state = "Variables"
    /\ blocks = <<>>
    /\ lines = <<>>
    /\ atEof = FALSE
    /\ pc = "resolve"
    /\ result = "running"
    /\ error = None
    /\ random_chars \in RandomCharsChoices
    /\ askIdx = 0
    /\ askDepth = 0
    /\ prompts = <<>>
    /\ termReads = <<>>

\* resolve is entered: up to its first prompt, or through to its end
CallResolve ==
    /\ pc = "resolve"
    /\ Flush("flush_eof")
    /\ UNCHANGED <<lines, atEof, random_chars, prompts, termReads, probe, ReaderVars, TokenizerVars>>

NextResolve ==
    \/ CallResolve
    \/ \E read \in TermNext : AskForInput(read)
    \/ AskForInputFails

SpecResolve == InitResolve /\ [][NextResolve]_vars

\* every input variable of the block was answered
EveryInputSet(block) ==
    \A i \in 1..Len(block.variables) :
        block.variables[i].kind = "Input" => IsSome(block.variables[i].input)

\* the context of a block whose input variables were all answered: for each
\* name the answer, or the random value, of the last variable so named
AnsweredContext(block) ==
    LET given == {i \in 1..Len(block.variables) : block.variables[i].kind # "AutoGenerated"}
        last(n) == CHOOSE i \in given :
                       /\ block.variables[i].name = n
                       /\ \A j \in given : block.variables[j].name = n => j <= i
    IN  [n \in {block.variables[i].name : i \in given} |->
            IF block.variables[last(n)].kind = "Input"
            THEN Unwrap(block.variables[last(n)].input)
            ELSE block.variables[last(n)].value]

\* C18: Block::resolve on a block whose every input variable already has its
\* input issues no prompt and reads no line of the operator, and what it
\* leaves to render is fixed by the block alone: resolve returns Ok, the
\* input and random variables are as they were and every auto-generated one
\* holds the context of the answers given beforehand.
C18_ResolveOfAnsweredBlock ==
    (probe.fn = "resolve" /\ EveryInputSet(probe.block))
    => /\ prompts = <<>>
       /\ termReads = <<>>
       /\ pc # "resolve"
           => /\ pc = "done"
              /\ result = "ok"
              /\ Len(blocks) = 1
              /\ blocks[1].title = probe.block.title
              /\ blocks[1].description = probe.block.description
              /\ Len(blocks[1].variables) = Len(probe.block.variables)
              /\ \A i \in 1..Len(probe.block.variables) :
                     IF probe.block.variables[i].kind = "AutoGenerated"
                            /\ has_auto_generated_variables(probe.block)
                     THEN blocks[1].variables[i]
                              = [probe.block.variables[i] EXCEPT
                                    !.context = AnsweredContext(probe.block)]
                     ELSE blocks[1].variables[i] = probe.block.variables[i]

\* resolve returned on a block with an answered variable and an
\* auto-generated one
C18_Witness ==
    /\ probe.fn = "resolve"
    /\ EveryInputSet(probe.block)
    /\ Len(probe.block.variables) = 2
    /\ probe.block.variables[1].kind = "Input"
    /\ probe.block.variables[2].kind = "AutoGenerated"
    /\ pc = "done"
    /\ result = "ok"

----------------------------------------------------------------------------
(* The character reader: CharReader::next called again and again on a file. *)

\* a file has at most MaxFileLen characters, next is called at most
\* MaxEofCalls times at the end of the file, read_line fails at most
\* MaxReadErrors times
MaxFileLen == 4
MaxEofCalls == 3
MaxReadErrors == 1
FileChars == {"a", "b", "\n"}

InitReader ==
    /\ ParserNew
    /\ probe = NoProbe
    /\ reader = CharReader
    /\ \E text \in StringsUpTo(FileChars, MaxFileLen) : source = [text |-> text, pos |-> 0]
    /\ yielded = <<>>
    /\ TokenizerIdle

Yielded(type) == {i \in 1..Len(yielded) : yielded[i].type = type}

\* CharReader::next returns Ok
CallNext ==
    LET call == next(reader, source)
    IN  /\ Cardinality(Yielded("Eof")) < MaxEofCalls
        /\ reader' = call.reader
        /\ source' = call.source
        /\ yielded' = Append(yielded, call.ret)
        /\ UNCHANGED <<ParserVars, probe, TokenizerVars>>

\* CharReader::next returns Err: read_line failed, before any field is set
CallNextFails ==
    /\ ~reader.done
    /\ ~IsSome(reader.current_line)
    /\ Cardinality(Yielded("Err")) < MaxReadErrors
    /\ yielded' = Append(yielded, ReadError)
    /\ UNCHANGED <<ParserVars, probe, reader, source, TokenizerVars>>

NextReader == CallNext \/ CallNextFails

SpecReader == InitReader /\ [][NextReader]_vars

\* C19: once CharReader::next has returned the end of the file, every later
\* call returns it too and leaves line and column as they were.
C19_EofIsPermanent ==
    [][(Yielded("Eof") # {} /\ Len(yielded') = Len(yielded) + 1)
        => /\ LastOf(yielded') = [type |-> "Eof"]
           /\ reader'.line = reader.line
           /\ reader'.column = reader.column]_vars

\* next was called twice more after the end of a file of two lines
C19_Witness ==
    /\ source.text = "ab\na"
    /\ Cardinality(Yielded("Eof")) = 3
    /\ reader.line = 2
    /\ reader.column = 1

\* the physical lines of a text, without their line feeds
PhysicalLines(text) ==
    LET pieces == TextLines(text)
    IN  IF pieces[Len(pieces)] = "" THEN SubSeq(pieces, 1, Len(pieces) - 1) ELSE pieces

\* what a reader yields for the lines from line l on: for each line its
\* characters in order, then one end of line; each item with the line and the
\* column the reader is at once it has returned it
RECURSIVE ExpectedFrom(_, _)
ExpectedFrom(physical, l) ==
    IF l > Len(physical) THEN <<>>
    ELSE [k \in 1..(Len(physical[l]) + 1) |->
             IF k <= Len(physical[l])
             THEN [ret |-> [type |-> "Char", char |-> SubSeq(physical[l], k, k)],
                   line |-> l, column |-> k]
             ELSE [ret |-> [type |-> "Eol"], line |-> l, column |-> Len(physical[l])]]
         \o ExpectedFrom(physical, l + 1)

\* C20: line goes up by one each time a physical line is loaded, the first
\* line being 1, and column is then 0; column goes up by one for each
\* character returned and stays for an end of line; so after the k-th
\* character of a line column is k, and each physical line yields its
\* characters in order, then exactly one end of line.
C20_PositionTracking ==
    LET items == SelectSeq(yielded, LAMBDA y : y.type # "Err")
        expected == ExpectedFrom(PhysicalLines(source.text), 1)
        n == Cardinality({i \in 1..Len(items) : items[i].type # "Eof"})
    IN  /\ n <= Len(expected)
        /\ \A i \in 1..n : items[i] = expected[i].ret
        /\ \A i \in (n + 1)..Len(items) : items[i].type = "Eof" /\ n = Len(expected)
        /\ IF n = 0
           THEN reader.line = 0 /\ reader.column = 0
           ELSE reader.line = expected[n].line /\ reader.column = expected[n].column

\* the reader has returned the second character of the second line
C20_Witness ==
    /\ source.text = "a\nab"
    /\ Len(yielded) = 4
    /\ LastOf(yielded) = [type |-> "Char", char |-> "b"]
    /\ reader.line = 2
    /\ reader.column = 2

----------------------------------------------------------------------------
(* Parser::flush, the end of the template, the blocks and the classifier.  *)

\* the block is the buffered one, resolved: same title, description and
\* variables by name and kind, every input variable with a value
ResolvedFrom(block, buffered) ==
    /\ block.title = buffered.title
    /\ block.description = buffered.description
    /\ Len(block.variables) = Len(buffered.variables)
    /\ \A i \in 1..Len(block.variables) :
           /\ block.variables[i].name = buffered.variables[i].name
           /\ block.variables[i].kind = buffered.variables[i].kind
           /\ block.variables[i].kind = "Input"
               => (IsSome(block.variables[i].input) \/ IsSome(block.variables[i].default))

\* C23: Parser::flush with a block buffered resolves it, appends it once at
\* the end of blocks and clears the buffer; with no block buffered (the
\* second of two blank lines) it changes neither blocks nor the buffer and
\* issues no prompt.
C23_Flush ==
    [][/\ (pc = "lines" /\ ReadsLine /\ CleanedLine = "" /\ ~IsSome(buffer))
           => /\ blocks' = blocks
              /\ buffer' = buffer
              /\ prompts' = prompts
              /\ termReads' = termReads
       /\ blocks' # blocks
           => /\ IsSome(buffer)
              /\ Len(blocks') = Len(blocks) + 1
              /\ SubSeq(blocks', 1, Len(blocks)) = blocks
              /\ ResolvedFrom(LastOf(blocks'), Unwrap(buffer))
              /\ buffer' = None
       /\ (IsSome(buffer) /\ ~IsSome(buffer')) => blocks' # blocks]_vars

\* a block was flushed at a blank line, and the next blank line found no block
C23_Witness ==
    /\ Len(lines) = 4
    /\ Trim(lines[3]) = ""
    /\ Trim(lines[4]) = ""
    /\ Len(blocks) = 1
    /\ blocks[1].variables # <<>>
    /\ buffer = None
    /\ pc = "lines"

\* C26: a template whose last block has a title and a variable or more, and
\* is followed by trailing blank lines, parses successfully with that block
\* in blocks; the check at the end of the input fails only when a block is
\* buffered with no variable.
C26_TrailingBlankLines ==
    /\ (/\ atEof
        /\ lines # <<>>
        /\ Trim(LastOf(lines)) = ""
        /\ TitleLines # {}
        /\ VariableLinesOf(LastOf(Ascending(TitleLines))) # <<>>)
        => /\ result = "ok"
           /\ blocks # <<>>
           /\ LastOf(blocks).variables # <<>>
    /\ (result = "err" /\ Unwrap(error).kind = "UnexpectedEof")
        => (IsSome(buffer) /\ Unwrap(buffer).variables = <<>>)

\* C27: at every point of a parse every block of blocks has a variable or
\* more: a block of a title alone, or of a title and a description, followed
\* by a blank line is never appended.
C27_NoEmptyBlock ==
    \A k \in 1..Len(blocks) : blocks[k].variables # <<>>

\* C28: parse_variable returns a variable or an error value on every trimmed
\* non-empty line and never aborts, also where a closing brace follows the
\* opening one at once or the braces hold a single character.
C28_ClassifierIsTotal ==
    (probe.fn = "parse_variable" /\ probe.done) => probe.out.kind \in {"ok", "err"}

\* C29: AutoGeneratedVariable::value gives one result for a pattern and a
\* context, whatever the order the entries of the context are applied in,
\* also where a value of the context holds {OTHER} for another key of it.
C29_ValueIsDeterministic ==
    (probe.fn = "value" /\ probe.done)
    => \A order \in IterationOrders(DOMAIN probe.var.context) :
           ApplyContext(probe.var.pattern, probe.var.context, order) = probe.out

----------------------------------------------------------------------------
(* The tokenizer: Iterator::next of Tokenizer called again and again on a  *)
(* file.  One step is the start of a call (which returns at once when the  *)
(* look-ahead holds a token) or one turn of the loop of next_tokens: one   *)
(* CharReader::next and what the loop does with its answer.                *)

\* s repeated n times
RECURSIVE Repeat(_, _)
Repeat(s, n) ==
    IF n <= 0 THEN ""
    ELSE IF n = 1 THEN s
    ELSE Repeat(s, n \div 2) \o Repeat(s, n - (n \div 2))

\* a file has at most MaxTokenFileLen characters of TokenChars, or is one of
\* TokenSamples: lines of the sample template, two-byte characters, and texts
\* of 128 characters closed by an equal sign, by the end of the line and by a
\* help mark
MaxTokenFileLen == 4
TokenChars == {"A", " ", "=", "#", "\n"}
LongText == Repeat("A", I8_MAX + 1)
TokenSamples ==
    {"# Createnv\nNAME=  # What's your name?\nGREETING=Hello, {NAME}!",
     "A=True  # h\n\n \nB= ",
     "é=A", "ééé=A",
     LongText \o "=A", LongText, LongText \o "  # h"}

TokenFiles == StringsUpTo(TokenChars, MaxTokenFileLen) \cup TokenSamples

InitTokenizer ==
    /\ ParserNew
    /\ probe = NoProbe
    /\ reader = CharReader
    /\ \E file \in TokenFiles : source = [text |-> file, pos |-> 0]
    /\ yielded = <<>>
    /\ TokenizerIdle

\* the process has aborted
Aborted == tokens # <<>> /\ tokens[Len(tokens)].kind = "Panic"

\* next_tokens returns Ok((first, second)) and Iterator::next what it makes
\* of it: with two tokens the second goes to the look-ahead
Returns(first, second) ==
    /\ scan' = None
    /\ tokens' = Append(tokens, IF IsSome(first) THEN Unwrap(first)
                                ELSE IF IsSome(second) THEN Unwrap(second)
                                ELSE IteratorEnd)
    /\ lookahead' = IF IsSome(first) /\ IsSome(second) THEN second ELSE lookahead
    /\ UNCHANGED scanFirst

\* next_tokens returns with the text token t first, or the process aborts
\* while the token is built
ReturnsText(t, second) ==
    IF t.kind = "Panic"
    THEN /\ tokens' = Append(tokens, Panicked)
         /\ scan' = None
         /\ UNCHANGED <<lookahead, scanFirst>>
    ELSE Returns(Some(t), second)

\* Iterator::next is called: it returns the token of the look-ahead, or
\* enters next_tokens
IteratorNext ==
    /\ scan = None
    /\ ~Aborted
    /\ Cardinality({i \in 1..Len(tokens) : tokens[i].kind = "End"}) < MaxEofCalls
    /\ IF IsSome(lookahead)
       THEN /\ tokens' = Append(tokens, Unwrap(lookahead))
            /\ lookahead' = None
            /\ UNCHANGED <<scan, scanFirst>>
       ELSE /\ scan' = Some("")
            /\ scanFirst' = 0
            /\ UNCHANGED <<lookahead, tokens>>
    /\ UNCHANGED <<ParserVars, probe, ReaderVars>>

\* one turn of the loop of next_tokens, reader.next() returning Ok
ScanStep ==
    /\ IsSome(scan)
    /\ LET call == next(reader, source)
           r == call.reader
           buf == Unwrap(scan)
       IN  /\ reader' = r
           /\ source' = call.source
           /\ yielded' = Append(yielded, call.ret)
           /\ IF call.ret.type = "Eof" THEN Returns(None, None)
              ELSE IF call.ret.type = "Eol"
              THEN IF buf = "" THEN UNCHANGED TokenizerVars
                   ELSE \E t \in TokenizerText(r, buf, TRUE, FALSE) : ReturnsText(t, None)
              ELSE
              LET c == call.ret.char
                  prepends_help == c = "#" /\ r.column # 1 /\ EndsWith(buf, "  ")
                  token == IF c = "=" THEN Some(equal_sign(r))
                           ELSE IF c = "#" /\ r.column = 1 THEN Some(comment_mark(r))
                           ELSE IF prepends_help THEN Some(help_mark(r))
                           ELSE None
                  stripped == IF prepends_help THEN Unwrap(StripSuffix(buf, "  ")) ELSE buf
              IN  IF IsSome(token)
                  THEN IF stripped = "" THEN Returns(token, None)
                       ELSE \E t \in TokenizerText(r, stripped, FALSE, prepends_help) :
                                ReturnsText(t, token)
                  ELSE /\ scan' = Some(buf \o c)
                       /\ scanFirst' = IF buf = "" THEN r.column ELSE scanFirst
                       /\ UNCHANGED <<lookahead, tokens>>
    /\ UNCHANGED <<ParserVars, probe>>

\* reader.next() returns Err in next_tokens: Iterator::next returns Some(Err)
ScanStepFails ==
    /\ IsSome(scan)
    /\ ~reader.done
    /\ ~IsSome(reader.current_line)
    /\ Cardinality(Yielded("Err")) < MaxReadErrors
    /\ yielded' = Append(yielded, ReadError)
    /\ tokens' = Append(tokens, IteratorErr)
    /\ scan' = None
    /\ UNCHANGED <<ParserVars, probe, reader, source, lookahead, scanFirst>>

NextTokenizer == IteratorNext \/ ScanStep \/ ScanStepFails

SpecTokenizer == InitTokenizer /\ [][NextTokenizer]_vars

\* the tokens built so far: those returned and the one in the look-ahead
Built == SelectSeq(tokens, LAMBDA t : t.kind \notin {"End", "Err", "Panic"}) \o lookahead

\* physical line l of the file
FileLine(l) == PhysicalLines(source.text)[l]

\* C21: the column of a HelpMark token is the column of the hash that
\* introduced it minus 2, the column where the two stripped spaces begin, not
\* the column of the hash; column 6 for NAME=  # What's your name?
C21_HelpMarkColumn ==
    /\ \A i \in 1..Len(Built) :
           Built[i].kind = "HelpMark"
           => /\ Built[i].column >= 1
              /\ Built[i].column + 2 <= Len(FileLine(Built[i].line))
              /\ SubSeq(FileLine(Built[i].line), Built[i].column + 2, Built[i].column + 2) = "#"
              /\ SubSeq(FileLine(Built[i].line), Built[i].column, Built[i].column + 1) = "  "
    /\ (IsSome(lookahead) /\ Unwrap(lookahead).kind = "HelpMark")
        => /\ reader.line = Unwrap(lookahead).line
           /\ reader.column = Unwrap(lookahead).column + 2

\* the help mark of NAME=  # What's your name? was returned, with column 6
C21_Witness ==
    /\ source.text = "# Createnv\nNAME=  # What's your name?\nGREETING=Hello, {NAME}!"
    /\ tokens # <<>>
    /\ LastOf(tokens) = [kind |-> "HelpMark", line |-> 2, column |-> 6]

\* C22: a blank line, empty or of white space only, gives no token at all, so
\* that no Text token with an empty text is ever returned.
C22_BlankLineGivesNoToken ==
    \A i \in 1..Len(Built) :
        /\ Trim(FileLine(Built[i].line)) # ""
        /\ Built[i].kind = "Text" => Built[i].text # ""

\* C25: the column of a Text token is the reader column of the first buffered
\* character, for a text of any length (128 characters or more included) and
\* of any characters, closed by the end of the line, an equal sign or a help
\* mark; the computation from the current column and the length of the buffer
\* never wraps or underflows.
C25_TextColumn ==
    [][(/\ IsSome(scan)
        /\ Unwrap(scan) # ""
        /\ Len(tokens') = Len(tokens) + 1
        /\ LastOf(tokens').kind \in {"Text", "Panic"})
       => /\ LastOf(tokens').kind = "Text"
          /\ LastOf(tokens').column = scanFirst]_vars

\* the characters a..b of s without the spaces
RECURSIVE NoSpacesIn(_, _, _)
NoSpacesIn(s, a, b) ==
    IF a > b THEN ""
    ELSE IF a = b THEN (IF SubSeq(s, a, a) = " " THEN "" ELSE SubSeq(s, a, a))
    ELSE NoSpacesIn(s, a, (a + b) \div 2) \o NoSpacesIn(s, (a + b) \div 2 + 1, b)

\* s without its spaces
NoSpaces(s) == NoSpacesIn(s, 1, Len(s))

\* what a token stands for in its line, spaces apart
Mark(t) == IF t.kind = "Text" THEN NoSpaces(t.text) ELSE IF t.kind = "EqualSign" THEN "=" ELSE "#"

\* the marks of the tokens of line l, in the order they were built
RECURSIVE MarksOf(_, _)
MarksOf(ts, l) ==
    IF ts = <<>> THEN ""
    ELSE (IF Head(ts).line = l THEN Mark(Head(ts)) ELSE "") \o MarksOf(Tail(ts), l)

\* column x is not after column y; a column below 0 stands for one that
\* wrapped around the top of usize, after every column that did not
ColumnNotAfter(x, y) == IF (x < 0) = (y < 0) THEN x <= y ELSE y < 0

\* the tokens are in non-decreasing (line, column) order
InReadingOrder(ts) ==
    \A i \in 1..(Len(ts) - 1) :
        \/ ts[i].line < ts[i + 1].line
        \/ ts[i].line = ts[i + 1].line /\ ColumnNotAfter(ts[i].column, ts[i + 1].column)

\* the iteration ended: every line of the file is made of its tokens, spaces
\* apart, so none was lost and none came twice
AllDelivered ==
    (tokens # <<>> /\ LastOf(tokens).kind = "End")
    => \A l \in 1..Len(PhysicalLines(source.text)) :
           MarksOf(Built, l) = NoSpaces(FileLine(l))

\* C24: a scan that gives a text and a marker returns the text and keeps the
\* marker in the look-ahead, which the very next call returns; the tokens of
\* the whole sequence come in non-decreasing (line, column) order, none lost
\* and none twice, and the look-ahead is empty whenever a scan starts.
C24_Iteration ==
    [][/\ IsSome(lookahead)
          => /\ tokens' = Append(tokens, Unwrap(lookahead))
             /\ lookahead' = None
       /\ (lookahead = None /\ IsSome(lookahead'))
          => /\ Len(tokens') = Len(tokens) + 1
             /\ LastOf(tokens').kind = "Text"
             /\ Unwrap(lookahead').kind \in {"EqualSign", "HelpMark"}
       /\ IsSome(scan') => lookahead' = None
       /\ tokens' # <<>> => LastOf(tokens').kind # "Panic"
       /\ InReadingOrder(Built')
       /\ AllDelivered]_vars

====
